---- MODULE Spec2Model ----
(***************************************************************************)
(* Model of the knitting counter firmware: the mode state machine          *)
(* (State::handle_input), the counter model, the digit editor and the      *)
(* EEPROM serialization of the four counters.                              *)
(***************************************************************************)
EXTENDS Integers, Sequences, FiniteSets, TLC

VARIABLES mode, counters, selected_counter, digits_input, eeprom, io_addr, last, steps

\* the value an editor is built from and the value recomposed from it
VARIABLES seed, parsed

\* the main loop: the debouncer's last_input, the scan results so far, the
\* result of the last debounce call and the display contents
VARIABLES debouncer, scans, emitted, lcd

\* the input symbols handled so far in a scenario
VARIABLES trace

\* the EEPROM registers and the position of the driver in its calls
VARIABLES regs, drv

digitsVars == <<seed, parsed>>
hwVars == <<regs, drv>>
loopVars == <<debouncer, scans, emitted, lcd>>
\* the variables used only by the specifications of single components
others == <<digitsVars, loopVars, trace, hwVars>>

vars == <<mode, counters, selected_counter, digits_input, eeprom, io_addr, last, steps, others>>

(* ---------------------------------------------------------------------- *)
(* Bounds of the model                                                     *)
(* ---------------------------------------------------------------------- *)
\* number of input symbols handled after boot
MaxSteps == 4
\* number of store/load calls applied to one drawn counter set
MaxOps == 2
\* number of keypad scans of the main loop
MaxScans == 4
\* number of input symbols of a scenario
MaxKeys == 7
\* number of input symbols handled while editing
MaxEdits == 5
\* bytes of storage modelled beyond the 8 bytes of the counter set
Slack == 2

(* ---------------------------------------------------------------------- *)
(* Program constants and types                                             *)
(* ---------------------------------------------------------------------- *)
STATE_STORAGE_ADDRESS == 1337
BUF_LEN == 5
SCREEN_WIDTH == 16
LINE_WIDTH == 64
BOTTOM_RIGHT == LINE_WIDTH + SCREEN_WIDTH - 1
COUNTER_START == 6
SELECTED_COUNTER == BOTTOM_RIGHT
DIRTY_STATE == LINE_WIDTH
\* number of values of a u16 / of a u8
U16 == 65536
U8 == 256

Selections == {"A", "B", "C", "D"}
Digit == {"Num0", "Num1", "Num2", "Num3", "Num4", "Num5", "Num6", "Num7", "Num8", "Num9"}
Inputs == Digit \cup {"Star", "Hash"} \cup Selections
Modes == {"Normal", "Input", "ConfirmReset"}

Addrs == STATE_STORAGE_ADDRESS .. (STATE_STORAGE_ADDRESS + 7 + Slack)

(* ---------------------------------------------------------------------- *)
(* Integer helpers with the widths of the code                             *)
(* ---------------------------------------------------------------------- *)
RECURSIVE Pow10(_)
Pow10(i) == IF i = 0 THEN 1 ELSE (10 * Pow10(i - 1)) % U16

WrappingAdd(a, b) == (a + b) % U16
WrappingSub(a, b) == (a + U16 - b) % U16
\* u16 product as a release build computes it (a debug build panics on overflow)
WrappingMul(a, b) == (a * b) % U16
\* variant: the addition wraps instead of saturating
SaturatingAddWraps(a, b) == (a + b) % U16
SaturatingAdd(a, b) == IF a + b > U16 - 1 THEN U16 - 1 ELSE a + b

\* variant: the value is encoded most significant byte first
ToBeBytes(val) == <<val \div U8, val % U8>>
ToLeBytes(val) == <<val % U8, val \div U8>>
\* variant: the bytes are decoded most significant first
FromBeBytes(buf) == buf[2] + U8 * buf[1]
FromLeBytes(buf) == buf[1] + U8 * buf[2]

(* ---------------------------------------------------------------------- *)
(* Counter                                                                 *)
(* ---------------------------------------------------------------------- *)
CounterNew(val) == [val |-> val, dirty |-> FALSE]
\* variant: the increment forgets to mark the counter as changed
CounterIncKeepsDirty(c) == [val |-> WrappingAdd(c.val, 1), dirty |-> c.dirty]
CounterInc(c) == [val |-> WrappingAdd(c.val, 1), dirty |-> TRUE]
\* variant: the decrement stops at 0 instead of wrapping
CounterDecSaturating(c) == [val |-> IF c.val = 0 THEN 0 ELSE c.val - 1, dirty |-> TRUE]
CounterDec(c) == [val |-> WrappingSub(c.val, 1), dirty |-> TRUE]
CounterSet(c, val) == [val |-> val, dirty |-> TRUE]
CounterReset(c) == [val |-> 0, dirty |-> TRUE]
CounterToDigits(c) ==
  << (c.val \div 10000) % 10, (c.val \div 1000) % 10, (c.val \div 100) % 10,
     (c.val \div 10) % 10, c.val % 10 >>

(* ---------------------------------------------------------------------- *)
(* Digits and DigitsInput (the editor); buf[j] is the code's buf.0[j-1]    *)
(* ---------------------------------------------------------------------- *)
\* variant: the digits are filled least significant first
FromU16Reversed(val) == [j \in 1..BUF_LEN |-> (val \div Pow10(j - 1)) % 10]
FromU16(val) == [j \in 1..BUF_LEN |-> (val \div Pow10(BUF_LEN - j)) % 10]

RECURSIVE ToU16Fold(_, _, _), ToU16FoldNoRev(_, _, _)
\* variant: the digits are folded without reversing them
ToU16FoldNoRev(buf, i, acc) ==
  IF i = BUF_LEN THEN acc
  ELSE ToU16FoldNoRev(buf, i + 1, SaturatingAdd(acc, WrappingMul(buf[i + 1], Pow10(i))))
ToU16Fold(buf, i, acc) ==
  IF i = BUF_LEN THEN acc
  ELSE ToU16Fold(buf, i + 1, SaturatingAdd(acc, WrappingMul(buf[BUF_LEN - i], Pow10(i))))
ToU16(buf) == ToU16Fold(buf, 0, 0)

NoDigitsInput == [some |-> FALSE, buf |-> [j \in 1..BUF_LEN |-> 0], index |-> 0]
DigitsInputNew(val) == [some |-> TRUE, buf |-> FromU16(val), index |-> 0]
\* variant: the bound of the most significant digit is off by one
AddDigitOffByOne(d, digit) ==
  IF d.index = 0 /\ digit > 7 THEN d
  ELSE [d EXCEPT !.buf[d.index + 1] = digit, !.index = (d.index + 1) % BUF_LEN]
\* variant: the cursor does not advance after an entry
AddDigitNoAdvance(d, digit) ==
  IF d.index = 0 /\ digit > 6 THEN d
  ELSE [d EXCEPT !.buf[d.index + 1] = digit]
\* variant: the most significant digit is not bounded
AddDigitUnchecked(d, digit) ==
  [d EXCEPT !.buf[d.index + 1] = digit, !.index = (d.index + 1) % BUF_LEN]
AddDigit(d, digit) ==
  IF d.index = 0 /\ digit > 6 THEN d
  ELSE [d EXCEPT !.buf[d.index + 1] = digit, !.index = (d.index + 1) % BUF_LEN]
Parse(d) == ToU16(d.buf)

ToDigit(input) ==
  CASE input = "Num0" -> 0 [] input = "Num1" -> 1 [] input = "Num2" -> 2
    [] input = "Num3" -> 3 [] input = "Num4" -> 4 [] input = "Num5" -> 5
    [] input = "Num6" -> 6 [] input = "Num7" -> 7 [] input = "Num8" -> 8
    [] input = "Num9" -> 9 [] OTHER -> -1

(* ---------------------------------------------------------------------- *)
(* Storage: a byte map; write_byte skips the write of an equal byte        *)
(* ---------------------------------------------------------------------- *)
ReadByte(mem, addr) == mem[addr]
WriteByte(mem, addr, data) ==
  IF ReadByte(mem, addr) = data THEN mem ELSE [mem EXCEPT ![addr] = data]

RECURSIVE WriteBytes(_, _, _, _)
WriteBytes(mem, addr, data, addr_offset) ==
  IF addr_offset = Len(data) THEN mem
  ELSE WriteBytes(WriteByte(mem, addr + addr_offset, data[addr_offset + 1]),
                  addr, data, addr_offset + 1)

ReadBytes(mem, addr, len) == [i \in 1..len |-> ReadByte(mem, addr + (i - 1))]

CounterStore(c, mem, addr) == WriteBytes(mem, addr, ToLeBytes(c.val), 0)
CounterLoad(mem, addr) == CounterNew(FromLeBytes(ReadBytes(mem, addr, 2)))

\* offset of a counter in the stored counter set
CounterOffset(k) == CASE k = "A" -> 0 [] k = "B" -> 2 [] k = "C" -> 4 [] k = "D" -> 6

CountersStore(cs, mem, addr) ==
  LET m1 == CounterStore(cs["A"], mem, addr)
      m2 == CounterStore(cs["B"], m1, addr + 2)
      m3 == CounterStore(cs["C"], m2, addr + 4)
  IN  CounterStore(cs["D"], m3, addr + 6)

CountersLoad(mem, addr) ==
  [k \in Selections |->
     CASE k = "A" -> CounterLoad(mem, addr)
       [] k = "B" -> CounterLoad(mem, addr + 2)
       [] k = "C" -> CounterLoad(mem, addr + 4)
       [] k = "D" -> CounterLoad(mem, addr + 6)]

(* ---------------------------------------------------------------------- *)
(* State                                                                   *)
(* ---------------------------------------------------------------------- *)
Self == [mode |-> mode, counters |-> counters,
         selected_counter |-> selected_counter, digits_input |-> digits_input]

\* variant: only the selected counter is persisted
StateStoreSelected(self, mem, addr) ==
  CounterStore(self.counters[self.selected_counter], mem,
               addr + CounterOffset(self.selected_counter))
StateStore(self, mem, addr) == CountersStore(self.counters, mem, addr)
StateLoad(mem, addr) ==
  [mode |-> "Normal", counters |-> CountersLoad(mem, addr),
   selected_counter |-> "A", digits_input |-> NoDigitsInput]

GetCounter(self) == self.counters[self.selected_counter]
\* variant: every selection yields the first counter
WithCounterFirst(self, c) == [self EXCEPT !.counters["A"] = c]
WithCounter(self, c) == [self EXCEPT !.counters[self.selected_counter] = c]

\* variant: entering Input mode does not create the editor
ChangeModeNoEditor(self, m) ==
  CASE m = "Normal" -> [self EXCEPT !.digits_input = NoDigitsInput, !.mode = m]
    [] OTHER -> [self EXCEPT !.mode = m]
ChangeMode(self, m) ==
  CASE m = "Input" ->
         [self EXCEPT !.digits_input = DigitsInputNew(GetCounter(self).val), !.mode = m]
    [] m = "Normal" -> [self EXCEPT !.digits_input = NoDigitsInput, !.mode = m]
    [] OTHER -> [self EXCEPT !.mode = m]

\* Normal mode, selector symbol: edit the selected counter or select another
NormalSelector(self, counter) ==
  IF self.selected_counter = counter
  THEN ChangeMode(self, "Input")
  ELSE [self EXCEPT !.selected_counter = counter]

\* variant: any selector symbol commits the edit
InputSelectorAlwaysCommits(self, digits, counter_selection) ==
  ChangeMode(WithCounter(self, CounterSet(GetCounter(self), Parse(digits))), "Normal")

\* Input mode, selector symbol: commit when it names the edited counter,
\* then leave Input mode
InputSelector(self, digits, counter_selection) ==
  ChangeMode(IF self.selected_counter = counter_selection
             THEN WithCounter(self, CounterSet(GetCounter(self), Parse(digits)))
             ELSE self,
             "Normal")

HandleNormal(self, mem, input) ==
  CASE input = "Num0" -> [self |-> ChangeMode(self, "ConfirmReset"), mem |-> mem]
    [] input = "Num5" -> [self |-> self, mem |-> StateStore(self, mem, STATE_STORAGE_ADDRESS)]
    [] input = "Star" -> [self |-> WithCounter(self, CounterDec(GetCounter(self))), mem |-> mem]
    [] input = "Hash" -> [self |-> WithCounter(self, CounterInc(GetCounter(self))), mem |-> mem]
    [] input \in Selections -> [self |-> NormalSelector(self, input), mem |-> mem]
    [] OTHER -> [self |-> self, mem |-> mem]

\* variant: the cursor is decremented without the wrap to the last position
CursorLeftNoWrap(digits) == [digits EXCEPT !.index = digits.index - 1]
\* Input mode, `*`: the cursor moves left, from 0 to the last position
CursorLeft(digits) ==
  [digits EXCEPT !.index = (IF digits.index = 0 THEN BUF_LEN ELSE digits.index) - 1]
\* Input mode, `#`: the cursor moves right, from the last position to 0
CursorRight(digits) == [digits EXCEPT !.index = (digits.index + 1) % BUF_LEN]

HandleInputMode(self, mem, input) ==
  IF ~self.digits_input.some THEN [self |-> self, mem |-> mem]
  ELSE LET digits == self.digits_input IN
    CASE input = "Star" -> [self |-> [self EXCEPT !.digits_input = CursorLeft(digits)], mem |-> mem]
      [] input = "Hash" -> [self |-> [self EXCEPT !.digits_input = CursorRight(digits)], mem |-> mem]
      [] input \in Digit ->
           [self |-> [self EXCEPT !.digits_input = AddDigit(digits, ToDigit(input))],
            mem |-> mem]
      [] input \in Selections -> [self |-> InputSelector(self, digits, input), mem |-> mem]

\* variant: any symbol other than # cancels the confirmation
HandleConfirmResetAnyCancels(self, mem, input) ==
  CASE input = "Hash" ->
         [self |-> ChangeMode(WithCounter(self, CounterReset(GetCounter(self))), "Normal"),
          mem |-> mem]
    [] OTHER -> [self |-> ChangeMode(self, "Normal"), mem |-> mem]

HandleConfirmReset(self, mem, input) ==
  CASE input = "Star" -> [self |-> ChangeMode(self, "Normal"), mem |-> mem]
    [] input = "Hash" ->
         [self |-> ChangeMode(WithCounter(self, CounterReset(GetCounter(self))), "Normal"),
          mem |-> mem]
    [] OTHER -> [self |-> self, mem |-> mem]

handle_input(self, mem, input) ==
  CASE self.mode = "Normal" -> HandleNormal(self, mem, input)
    [] self.mode = "Input" -> HandleInputMode(self, mem, input)
    [] self.mode = "ConfirmReset" -> HandleConfirmReset(self, mem, input)



(* ---------------------------------------------------------------------- *)
(* The EEPROM registers (EEAR, EEDR and the EEMPE, EEPE bits of EECR) and  *)
(* the driver's position                                                   *)
(* ---------------------------------------------------------------------- *)
RegsReset == [eear |-> 0, eedr |-> 0, eempe |-> FALSE, eepe |-> FALSE]
\* the driver before its first call: op counts the byte calls started
DrvIdle ==
  [pc |-> "idle", op |-> 0, rd |-> 0, buf |-> <<>>, olds |-> <<>>, arms |-> <<>>,
   triggers |-> <<>>, programmed |-> 0, busy_access |-> FALSE, unarmed_trigger |-> FALSE]

(* ---------------------------------------------------------------------- *)
(* Debouncer; None is the None of an Option<Input>                         *)
(* ---------------------------------------------------------------------- *)
None == "None"
ScanResults == Inputs \cup {None}

\* variant: a release does not re-arm the debouncer
DebounceNoRearm(last_input, input) ==
  IF input # last_input /\ input # None
  THEN [last_input |-> input, out |-> input]
  ELSE [last_input |-> last_input, out |-> None]
\* the new last_input and the returned value
Debounce(last_input, input) ==
  IF input # last_input
  THEN [last_input |-> input, out |-> input]
  ELSE [last_input |-> last_input, out |-> None]

(* ---------------------------------------------------------------------- *)
(* Display: the visible cells of the two lines, addressed as the code      *)
(* does (line 2 starts at LINE_WIDTH), and the write position              *)
(* ---------------------------------------------------------------------- *)
DisplayCells == (0..(SCREEN_WIDTH - 1)) \cup (LINE_WIDTH..(LINE_WIDTH + SCREEN_WIDTH - 1))
BlankDisplay == [p \in DisplayCells |-> " "]

LcdClear(l) == [ddram |-> BlankDisplay, pos |-> 0]
LcdReset(l) == [l EXCEPT !.pos = 0]
LcdSetCursorPos(l, p) == [l EXCEPT !.pos = p]
LcdShiftCursorRight(l) == [l EXCEPT !.pos = l.pos + 1]
LcdWriteChar(l, c) ==
  [ddram |-> IF l.pos \in DisplayCells THEN [l.ddram EXCEPT ![l.pos] = c] ELSE l.ddram,
   pos |-> l.pos + 1]
RECURSIVE LcdWriteStr(_, _)
LcdWriteStr(l, str) ==
  IF str = <<>> THEN l ELSE LcdWriteStr(LcdWriteChar(l, Head(str)), Tail(str))

FromDigit(d) == <<"0", "1", "2", "3", "4", "5", "6", "7", "8", "9">>[d + 1]

\* Digits::to_chars: None for the leading zeros, except in the last place
RECURSIVE ToCharsLoop(_, _, _, _)
ToCharsLoop(digits, i, leading, chars) ==
  IF i = BUF_LEN THEN chars
  ELSE IF i < BUF_LEN - 1 /\ leading /\ digits[i + 1] = 0
       THEN ToCharsLoop(digits, i + 1, leading, chars)
       ELSE ToCharsLoop(digits, i + 1, FALSE, [chars EXCEPT ![i + 1] = FromDigit(digits[i + 1])])
ToChars(digits) == ToCharsLoop(digits, 0, TRUE, [j \in 1..BUF_LEN |-> None])

SelectionToChar(k) == k

RECURSIVE WriteCounterChars(_, _, _, _)
\* the loops over to_chars(): a None moves right (blank) or is written as fill
WriteCounterChars(l, chars, j, fill) ==
  IF j > BUF_LEN THEN l
  ELSE WriteCounterChars(
         IF chars[j] # None THEN LcdWriteChar(l, chars[j])
         ELSE IF fill = None THEN LcdShiftCursorRight(l) ELSE LcdWriteChar(l, fill),
         chars, j + 1, fill)

ClearCounterStr == <<"C", "l", "e", "a", "r", " ", "c", "o", "u", "n", "t", "e", "r", "?">>
NoYesStr == <<"*", ":", " ", "N", "o", " ", " ", "#", ":", " ", "Y", "e", "s">>
SavedStr == <<"S", "a", "v", "e", "d">>

\* the mode's part of update_display
DisplayMode(self, l) ==
  CASE self.mode = "Normal" ->
         WriteCounterChars(LcdSetCursorPos(l, COUNTER_START),
                           ToChars(CounterToDigits(GetCounter(self))), 1, None)
    [] self.mode = "Input" ->
         LET l1 == LcdSetCursorPos(l, COUNTER_START) IN
         IF self.digits_input.some
         THEN LcdWriteChar(
                LcdSetCursorPos(WriteCounterChars(l1, ToChars(self.digits_input.buf), 1, "0"),
                                LINE_WIDTH + COUNTER_START + self.digits_input.index),
                "^")
         ELSE l1
    [] self.mode = "ConfirmReset" ->
         LcdWriteStr(LcdSetCursorPos(LcdWriteStr(l, ClearCounterStr), LINE_WIDTH), NoYesStr)

\* the display contents after update_display
UpdateDisplay(self) ==
  LET l0 == LcdReset(LcdClear([ddram |-> BlankDisplay, pos |-> 0]))
      l1 == DisplayMode(self, l0)
      l2 == IF ~GetCounter(self).dirty
            THEN LcdWriteStr(LcdSetCursorPos(l1, DIRTY_STATE), SavedStr)
            ELSE l1
  IN  LcdWriteChar(LcdSetCursorPos(l2, SELECTED_COUNTER), SelectionToChar(self.selected_counter)).ddram

(* ---------------------------------------------------------------------- *)
(* Boot: storage holds one of a few images; the state is loaded from it    *)
(* ---------------------------------------------------------------------- *)
Image(bytes) ==
  [a \in Addrs |-> IF a - STATE_STORAGE_ADDRESS < 8
                   THEN bytes[a - STATE_STORAGE_ADDRESS + 1] ELSE 255]

StorageImages ==
  { Image(<<255, 255, 255, 255, 255, 255, 255, 255>>),
    Image(<<5, 0, 10, 0, 0, 0, 0, 0>>),
    Image(<<15, 39, 255, 255, 0, 1, 52, 18>>) }

\* the state before the last operation and the operation's input
Snapshot(input, before) ==
  [input |-> input, before |-> before, mode |-> mode, counters |-> counters,
   selected_counter |-> selected_counter, digits_input |-> digits_input,
   eeprom |-> eeprom]

\* None of an Option<u16>
NoValue == -1

\* the component variables when the component is not under study
OthersIdle ==
  /\ seed = 0
  /\ parsed = NoValue
  /\ debouncer = None
  /\ scans = <<>>
  /\ emitted = None
  /\ lcd = BlankDisplay
  /\ trace = <<>>
  /\ regs = RegsReset
  /\ drv = DrvIdle

\* the state after State::new and State::load from one of the images
BootFrom(images) ==
  /\ eeprom \in images
  /\ io_addr = STATE_STORAGE_ADDRESS
  /\ LET s == StateLoad(eeprom, io_addr) IN
       /\ mode = s.mode
       /\ counters = s.counters
       /\ selected_counter = s.selected_counter
       /\ digits_input = s.digits_input
       /\ last = [input |-> "Boot", before |-> "Boot", mode |-> s.mode,
                  counters |-> s.counters, selected_counter |-> s.selected_counter,
                  digits_input |-> s.digits_input, eeprom |-> eeprom]
  /\ steps = 0

Init == OthersIdle /\ BootFrom(StorageImages)

\* handle_input applied to the state
Handle(input) ==
  /\ LET n == handle_input(Self, eeprom, input) IN
       /\ mode' = n.self.mode
       /\ counters' = n.self.counters
       /\ selected_counter' = n.self.selected_counter
       /\ digits_input' = n.self.digits_input
       /\ eeprom' = n.mem
  /\ last' = Snapshot(input, last.input)
  /\ steps' = steps + 1
  /\ UNCHANGED io_addr

Step(input) ==
  /\ steps < MaxSteps
  /\ Handle(input)
  /\ UNCHANGED others

InNormal == \E input \in Inputs : mode = "Normal" /\ Step(input)
InInput == \E input \in Inputs : mode = "Input" /\ Step(input)
InConfirmReset == \E input \in Inputs : mode = "ConfirmReset" /\ Step(input)

Next == InNormal \/ InInput \/ InConfirmReset

Spec == Init /\ [][Next]_vars

(* ---------------------------------------------------------------------- *)
(* Store/load of a counter set as pure operations: the counter set, the    *)
(* storage contents and the address are drawn from bounded sets            *)
(* ---------------------------------------------------------------------- *)
CodecVals == {0, 256, 4660, 65535}
CodecAddrs == STATE_STORAGE_ADDRESS .. (STATE_STORAGE_ADDRESS + Slack)
CodecImages ==
  { [a \in Addrs |-> 255],
    [a \in Addrs |-> IF a = io_addr THEN 5 ELSE IF a = io_addr + 2 THEN 10 ELSE 0] }

InitCodec ==
  /\ OthersIdle
  /\ io_addr \in CodecAddrs
  /\ eeprom \in CodecImages
  /\ counters \in [Selections -> [val : CodecVals, dirty : BOOLEAN]]
  /\ mode = "Normal"
  /\ selected_counter = "A"
  /\ digits_input = NoDigitsInput
  /\ last = [input |-> "Init", before |-> "Init", mode |-> mode, counters |-> counters,
             selected_counter |-> selected_counter, digits_input |-> digits_input,
             eeprom |-> eeprom]
  /\ steps = 0

CodecStore ==
  /\ steps < MaxOps
  /\ eeprom' = CountersStore(counters, eeprom, io_addr)
  /\ last' = Snapshot("store", last.input)
  /\ steps' = steps + 1
  /\ UNCHANGED <<mode, counters, selected_counter, digits_input, io_addr, others>>

CodecLoad ==
  /\ steps < MaxOps
  /\ counters' = CountersLoad(eeprom, io_addr)
  /\ last' = Snapshot("load", last.input)
  /\ steps' = steps + 1
  /\ UNCHANGED <<mode, selected_counter, digits_input, eeprom, io_addr, others>>

NextCodec == CodecStore \/ CodecLoad

SpecCodec == InitCodec /\ [][NextCodec]_vars


(* ---------------------------------------------------------------------- *)
(* The digit editor as a pure conversion: an editor is built from each     *)
(* 16-bit value and recomposed without an edit                             *)
(* ---------------------------------------------------------------------- *)
StateNew ==
  [mode |-> "Normal", counters |-> [k \in Selections |-> [val |-> 0, dirty |-> FALSE]],
   selected_counter |-> "A", digits_input |-> NoDigitsInput]

InitDigits ==
  /\ seed \in 0..(U16 - 1)
  /\ parsed = NoValue
  /\ debouncer = None /\ scans = <<>> /\ emitted = None /\ lcd = BlankDisplay
  /\ trace = <<>> /\ regs = RegsReset /\ drv = DrvIdle
  /\ mode = StateNew.mode
  /\ counters = StateNew.counters
  /\ selected_counter = StateNew.selected_counter
  /\ digits_input = StateNew.digits_input
  /\ eeprom = [a \in Addrs |-> 255]
  /\ io_addr = STATE_STORAGE_ADDRESS
  /\ last = [input |-> "Init", before |-> "Init", mode |-> mode, counters |-> counters,
             selected_counter |-> selected_counter, digits_input |-> digits_input,
             eeprom |-> eeprom]
  /\ steps = 0

DigitsNew ==
  /\ ~digits_input.some
  /\ digits_input' = DigitsInputNew(seed)
  /\ UNCHANGED <<mode, counters, selected_counter, eeprom, io_addr, last, steps, seed, parsed>>
  /\ UNCHANGED <<loopVars, trace, hwVars>>

DigitsParse ==
  /\ digits_input.some
  /\ parsed = NoValue
  /\ parsed' = Parse(digits_input)
  /\ UNCHANGED <<mode, counters, selected_counter, digits_input, eeprom, io_addr, last, steps, seed>>
  /\ UNCHANGED <<loopVars, trace, hwVars>>

NextDigits == DigitsNew \/ DigitsParse

SpecDigits == InitDigits /\ [][NextDigits]_vars


(* ---------------------------------------------------------------------- *)
(* The main loop: scan, debounce, handle the emitted symbol, render        *)
(* ---------------------------------------------------------------------- *)
LoopImages == { Image(<<5, 0, 10, 0, 0, 0, 0, 0>>) }

InitLoop ==
  /\ BootFrom(LoopImages)
  /\ seed = 0 /\ parsed = NoValue /\ trace = <<>> /\ regs = RegsReset /\ drv = DrvIdle
  /\ debouncer = None
  /\ scans = <<>>
  /\ emitted = None
  /\ lcd = UpdateDisplay(StateLoad(eeprom, io_addr))

\* one iteration with the scan result input
Loop(input) ==
  /\ Len(scans) < MaxScans
  /\ scans' = Append(scans, input)
  /\ LET d == Debounce(debouncer, input) IN
       /\ debouncer' = d.last_input
       /\ emitted' = d.out
       /\ IF d.out # None
          THEN LET n == handle_input(Self, eeprom, d.out) IN
                 /\ mode' = n.self.mode
                 /\ counters' = n.self.counters
                 /\ selected_counter' = n.self.selected_counter
                 /\ digits_input' = n.self.digits_input
                 /\ eeprom' = n.mem
                 /\ lcd' = UpdateDisplay(n.self)
                 /\ last' = Snapshot(d.out, last.input)
                 /\ steps' = steps + 1
          ELSE UNCHANGED <<mode, counters, selected_counter, digits_input, eeprom, lcd,
                           last, steps>>
  /\ UNCHANGED <<io_addr, digitsVars, trace, hwVars>>

\* a scan that finds a key pressed / no key pressed
ScanKey == \E input \in Inputs : Loop(input)
ScanNone == Loop(None)

NextLoop == ScanKey \/ ScanNone

SpecLoop == InitLoop /\ [][NextLoop]_vars


(* ---------------------------------------------------------------------- *)
(* Scenarios: a few keys pressed from a boot with counter A = 0            *)
(* ---------------------------------------------------------------------- *)
ScenarioImages ==
  { Image(<<0, 0, 0, 0, 0, 0, 0, 0>>), Image(<<0, 0, 255, 255, 10, 0, 1, 0>>) }
ScenarioKeys == {"Hash", "Star", "A", "Num9"}

InitScenario ==
  /\ BootFrom(ScenarioImages)
  /\ seed = 0 /\ parsed = NoValue
  /\ debouncer = None /\ scans = <<>> /\ emitted = None /\ lcd = BlankDisplay
  /\ trace = <<>> /\ regs = RegsReset /\ drv = DrvIdle

Key(input) ==
  /\ Len(trace) < MaxKeys
  /\ Handle(input)
  /\ trace' = Append(trace, input)
  /\ UNCHANGED <<digitsVars, loopVars, hwVars>>

PressHash == Key("Hash")
PressStar == Key("Star")
PressA == Key("A")
PressNum9 == Key("Num9")

NextScenario == PressHash \/ PressStar \/ PressA \/ PressNum9

SpecScenario == InitScenario /\ [][NextScenario]_vars


(* ---------------------------------------------------------------------- *)
(* Editing: the editor is opened on a counter loaded from storage, edited  *)
(* and closed                                                              *)
(* ---------------------------------------------------------------------- *)
SeedVals == {0, 9, 9999, 10000, 59999, 60000, 65535}
EditorImages == { Image(ToLeBytes(v) \o <<0, 0, 255, 255, 0, 0>>) : v \in SeedVals }

InitEditor ==
  /\ BootFrom(EditorImages)
  /\ OthersIdle

Edit(input) ==
  /\ steps < MaxEdits
  /\ Handle(input)
  /\ UNCHANGED others

EditorOpen == mode = "Normal" /\ Edit(selected_counter)
EditorMove == mode = "Input" /\ \E input \in {"Star", "Hash"} : Edit(input)
EditorEnter == mode = "Input" /\ \E input \in Digit : Edit(input)
EditorClose == mode = "Input" /\ \E input \in {"A", "B"} : Edit(input)

NextEditor == EditorOpen \/ EditorMove \/ EditorEnter \/ EditorClose

SpecEditor == InitEditor /\ [][NextEditor]_vars


(* ---------------------------------------------------------------------- *)
(* The storage driver at register level: a counter set is stored and       *)
(* loaded byte by byte while the hardware completes the writes             *)
(* ---------------------------------------------------------------------- *)
HwVals == {5, 261, 65535}
HwImages == { Image(<<5, 0, 10, 0, 0, 0, 0, 0>>), Image(<<255, 255, 255, 255, 255, 255, 255, 255>>) }

\* the byte calls of write_bytes and read_bytes, in order
WriteBytesOps(addr, data) ==
  [i \in 1..Len(data) |-> [op |-> "write", addr |-> addr + (i - 1), data |-> data[i]]]
ReadBytesOps(addr, len) ==
  [i \in 1..len |-> [op |-> "read", addr |-> addr + (i - 1), data |-> 0]]
CounterStoreOps(c, addr) == WriteBytesOps(addr, ToLeBytes(c.val))
CountersStoreOps(cs, addr) ==
  CounterStoreOps(cs["A"], addr) \o CounterStoreOps(cs["B"], addr + 2)
    \o CounterStoreOps(cs["C"], addr + 4) \o CounterStoreOps(cs["D"], addr + 6)
CountersLoadOps(addr) ==
  ReadBytesOps(addr, 2) \o ReadBytesOps(addr + 2, 2)
    \o ReadBytesOps(addr + 4, 2) \o ReadBytesOps(addr + 6, 2)

\* State::store followed by State::load
Job == CountersStoreOps(counters, io_addr) \o CountersLoadOps(io_addr)
\* the byte call in progress
Cur == Job[drv.op]

\* variant: the driver does not wait for a previous write
PrevWriteDoneNoWait(r) == TRUE
\* the exit condition of the busy-wait loops
PrevWriteDone(r) == ~r.eepe
\* variant: the byte is written even when the stored byte is equal
WriteNeededAlways(rd, data) == TRUE
\* write_byte goes on after its read-back
WriteNeeded(rd, data) == ~(rd = data)

InitEeprom ==
  /\ eeprom \in HwImages
  /\ io_addr = STATE_STORAGE_ADDRESS
  /\ counters \in [Selections -> [val : HwVals, dirty : {TRUE}]]
  /\ mode = "Normal"
  /\ selected_counter = "A"
  /\ digits_input = NoDigitsInput
  /\ last = [input |-> "Init", before |-> "Init", mode |-> mode, counters |-> counters,
             selected_counter |-> selected_counter, digits_input |-> digits_input,
             eeprom |-> eeprom]
  /\ steps = 0
  /\ seed = 0 /\ parsed = NoValue /\ trace = <<>>
  /\ debouncer = None /\ scans = <<>> /\ emitted = None /\ lcd = BlankDisplay
  /\ regs = RegsReset
  /\ drv = DrvIdle

HwFrame ==
  UNCHANGED <<mode, counters, selected_counter, digits_input, io_addr, last, steps,
              digitsVars, loopVars, trace>>

\* a register access of the driver, noted when a write is in progress
Access(d) == [d EXCEPT !.busy_access = d.busy_access \/ regs.eepe]

\* write_bytes / read_bytes call write_byte / read_byte for the next byte
DrvCall ==
  /\ drv.pc = "idle"
  /\ drv.op < Len(Job)
  /\ drv' = [drv EXCEPT !.op = drv.op + 1, !.pc = "r_wait",
                        !.olds = Append(drv.olds, eeprom[Job[drv.op + 1].addr]),
                        !.arms = Append(drv.arms, 0),
                        !.triggers = Append(drv.triggers, 0)]
  /\ UNCHANGED <<regs, eeprom>>
  /\ HwFrame

\* the busy-wait loops of read_byte and write_byte end
DrvWait ==
  /\ drv.pc \in {"r_wait", "w_wait"}
  /\ PrevWriteDone(regs)
  /\ drv' = [drv EXCEPT !.pc = IF drv.pc = "r_wait" THEN "r_eear" ELSE "w_eear"]
  /\ UNCHANGED <<regs, eeprom>>
  /\ HwFrame

\* read_byte: address, read strobe (the hardware loads EEDR), data
DrvRead ==
  /\ drv.pc \in {"r_eear", "r_eere", "r_eedr"}
  /\ CASE drv.pc = "r_eear" ->
            /\ regs' = [regs EXCEPT !.eear = Cur.addr]
            /\ drv' = [Access(drv) EXCEPT !.pc = "r_eere"]
       [] drv.pc = "r_eere" ->
            /\ regs' = [regs EXCEPT !.eedr = eeprom[regs.eear]]
            /\ drv' = [Access(drv) EXCEPT !.pc = "r_eedr"]
       [] drv.pc = "r_eedr" ->
            /\ regs' = regs
            /\ drv' = IF Cur.op = "read"
                      THEN [Access(drv) EXCEPT !.rd = regs.eedr, !.pc = "idle",
                                               !.buf = Append(drv.buf, regs.eedr)]
                      ELSE [Access(drv) EXCEPT !.rd = regs.eedr, !.pc = "w_cmp"]
  /\ UNCHANGED eeprom
  /\ HwFrame

\* write_byte: return when the byte read back equals the data
DrvCompare ==
  /\ drv.pc = "w_cmp"
  /\ drv' = [drv EXCEPT !.pc = IF WriteNeeded(drv.rd, Cur.data) THEN "w_wait" ELSE "idle"]
  /\ UNCHANGED <<regs, eeprom>>
  /\ HwFrame

\* write_byte: address, data, write enable (EEMPE), write start (EEPE); the
\* write starts only when it was enabled
DrvWrite ==
  /\ drv.pc \in {"w_eear", "w_eedr", "w_arm", "w_trigger"}
  /\ CASE drv.pc = "w_eear" ->
            /\ regs' = [regs EXCEPT !.eear = Cur.addr]
            /\ drv' = [Access(drv) EXCEPT !.pc = "w_eedr"]
       [] drv.pc = "w_eedr" ->
            /\ regs' = [regs EXCEPT !.eedr = Cur.data]
            /\ drv' = [Access(drv) EXCEPT !.pc = "w_arm"]
       [] drv.pc = "w_arm" ->
            /\ regs' = [regs EXCEPT !.eempe = TRUE]
            /\ drv' = [Access(drv) EXCEPT !.pc = "w_trigger", !.arms[drv.op] = @ + 1]
       [] drv.pc = "w_trigger" ->
            /\ regs' = [regs EXCEPT !.eempe = FALSE, !.eepe = regs.eepe \/ regs.eempe]
            /\ drv' = [Access(drv) EXCEPT !.pc = "idle",
                         !.triggers[drv.op] = @ + (IF regs.eempe THEN 1 ELSE 0),
                         !.unarmed_trigger = drv.unarmed_trigger \/ ~regs.eempe]
  /\ UNCHANGED eeprom
  /\ HwFrame

\* the hardware ends the write: the byte is in the medium, EEPE is cleared
HwComplete ==
  /\ regs.eepe
  /\ eeprom' = [eeprom EXCEPT ![regs.eear] = regs.eedr]
  /\ regs' = [regs EXCEPT !.eepe = FALSE]
  /\ drv' = [drv EXCEPT !.programmed = drv.programmed + 1]
  /\ HwFrame

NextEeprom == DrvCall \/ DrvWait \/ DrvRead \/ DrvCompare \/ DrvWrite \/ HwComplete

SpecEeprom == InitEeprom /\ [][NextEeprom]_vars

(* ====================================================================== *)
(* Properties                                                              *)
(* ====================================================================== *)
Base == STATE_STORAGE_ADDRESS
\* the 16-bit little-endian value held in storage at a counter's offset
StoredVal(mem, addr, k) == mem[addr + CounterOffset(k)] + 256 * mem[addr + CounterOffset(k) + 1]
\* the last handled symbol was s and the mode before it was m
Handled(m, s) == last.mode = m /\ last.input = s
LastSel == last.selected_counter

\* C1: in every state reachable from the boot-time load by handling input
\* symbols, a counter whose dirty flag is false holds the 16-bit
\* little-endian value stored at its offset (base+0, +2, +4, +6).
C1_CleanEqualsStored ==
  \A k \in Selections : ~counters[k].dirty => counters[k].val = StoredVal(eeprom, Base, k)

\* a save that changed the storage while one counter was still clean and
\* another one dirty
C1_Witness ==
  /\ Handled("Normal", "Num5")
  /\ eeprom # last.eeprom
  /\ \E k, j \in Selections : ~counters[k].dirty /\ counters[j].dirty

\* C2 (as claimed): after the save symbol (digit 5) is handled in Normal
\* mode, every counter written to storage, the selected one in particular,
\* has dirty = FALSE.
C2_SaveClearsDirty ==
  Handled("Normal", "Num5") => \A k \in Selections : ~counters[k].dirty

\* C3: storing a counter set at an address and then loading from the same
\* address, with no storage write in between, yields the four original
\* values with dirty = FALSE on all four, whatever the dirty flags were.
C3_RoundTrip ==
  (last.input = "load" /\ last.before = "store") =>
    \A k \in Selections : counters[k].val = last.counters[k].val /\ ~counters[k].dirty

\* a load after a store of four distinct values, some of them dirty
C3_Witness ==
  /\ last.input = "load" /\ last.before = "store"
  /\ last.counters["A"].val = 4660 /\ last.counters["B"].val = 65535
  /\ last.counters["C"].val = 256 /\ last.counters["D"].val = 0
  /\ last.counters["A"].dirty /\ ~last.counters["B"].dirty
  /\ counters["A"].val = 4660

\* C4: a store at address a leaves byte a+2k equal to the low byte and byte
\* a+2k+1 equal to the high byte of counter k (order A, B, C, D, 8
\* contiguous bytes, no other byte touched); a load decodes the same
\* layout, so bytes 05,00,0A,00,00,00,00,00 load as A=5, B=10, C=0, D=0.
C4_Layout ==
  /\ last.input = "store" =>
       /\ \A k \in Selections :
            /\ eeprom[io_addr + CounterOffset(k)] = counters[k].val % 256
            /\ eeprom[io_addr + CounterOffset(k) + 1] = counters[k].val \div 256
       /\ \A a \in Addrs : (a < io_addr \/ a > io_addr + 7) => eeprom[a] = last.eeprom[a]
  /\ last.input = "load" =>
       /\ \A k \in Selections : counters[k].val = StoredVal(eeprom, io_addr, k)
       /\ [i \in 1..8 |-> eeprom[io_addr + i - 1]] = <<5, 0, 10, 0, 0, 0, 0, 0>> =>
            /\ counters["A"].val = 5 /\ counters["B"].val = 10
            /\ counters["C"].val = 0 /\ counters["D"].val = 0

\* the scenario bytes have been loaded
C4_Witness ==
  /\ last.input = "load"
  /\ [i \in 1..8 |-> eeprom[io_addr + i - 1]] = <<5, 0, 10, 0, 0, 0, 0, 0>>
  /\ counters["A"].val = 5 /\ counters["B"].val = 10
  /\ last.counters["A"].val = 4660

\* C5: handle_input writes the storage iff the symbol is digit 5 and the
\* mode is Normal: then all four counters are persisted, dirty or not, and
\* mode, selection and counter values are unchanged; for every other
\* (mode, symbol) pair the storage contents are unchanged.
C5_StorageFrame ==
  IF Handled("Normal", "Num5")
  THEN /\ \A k \in Selections : StoredVal(eeprom, Base, k) = last.counters[k].val
       /\ mode = last.mode
       /\ selected_counter = last.selected_counter
       /\ \A k \in Selections : counters[k].val = last.counters[k].val
  ELSE eeprom = last.eeprom

\* a save that wrote a dirty counter that is not the selected one
C5_Witness ==
  /\ Handled("Normal", "Num5")
  /\ \E k \in Selections :
       /\ k # selected_counter
       /\ last.counters[k].dirty
       /\ StoredVal(last.eeprom, Base, k) # last.counters[k].val
       /\ StoredVal(eeprom, Base, k) = counters[k].val

\* C6: in Normal mode # adds 1 and * subtracts 1 to the selected counter
\* modulo 65536 (65535 + 1 = 0, 0 - 1 = 65535), sets its dirty flag and
\* leaves mode and selection unchanged; the value stays in [0, 65535].
C6_IncDecWrap ==
  /\ \A k \in Selections : counters[k].val \in 0..65535
  /\ Handled("Normal", "Hash") =>
       /\ counters[LastSel].val = (last.counters[LastSel].val + 1) % 65536
       /\ last.counters[LastSel].val = 65535 => counters[LastSel].val = 0
       /\ counters[LastSel].dirty
       /\ mode = "Normal" /\ selected_counter = LastSel
  /\ Handled("Normal", "Star") =>
       /\ counters[LastSel].val = (last.counters[LastSel].val + 65535) % 65536
       /\ last.counters[LastSel].val = 0 => counters[LastSel].val = 65535
       /\ counters[LastSel].dirty
       /\ mode = "Normal" /\ selected_counter = LastSel

\* a decrement of a clean counter holding 0
C6_Witness ==
  /\ Handled("Normal", "Star")
  /\ last.counters[LastSel].val = 0 /\ ~last.counters[LastSel].dirty
  /\ counters[LastSel].val = 65535

\* the five zero-padded decimal digits of v, most significant first
DecimalDigits(v) ==
  <<(v \div 10000) % 10, (v \div 1000) % 10, (v \div 100) % 10, (v \div 10) % 10, v % 10>>

\* C7: in Normal mode a selector symbol naming the selected counter enters
\* Input mode with a fresh editor holding the zero-padded decimal digits of
\* the counter's value and cursor 0; one naming another counter selects it
\* and stays in Normal mode; no counter value or dirty flag changes.
C7_NormalSelector ==
  (last.mode = "Normal" /\ last.input \in Selections) =>
    /\ counters = last.counters
    /\ IF last.input = LastSel
       THEN /\ mode = "Input"
            /\ digits_input.some
            /\ digits_input.buf = DecimalDigits(last.counters[LastSel].val)
            /\ digits_input.index = 0
            /\ selected_counter = LastSel
       ELSE /\ mode = "Normal"
            /\ selected_counter = last.input
            /\ ~digits_input.some

\* the editor was opened on a dirty counter whose digits are not a palindrome
C7_Witness ==
  /\ last.mode = "Normal" /\ last.input = LastSel
  /\ mode = "Input" /\ digits_input.index = 0
  /\ counters[LastSel].dirty
  /\ digits_input.buf = <<0, 0, 0, 1, 1>>

\* C8: in Input mode the selector symbol of the edited counter sets the
\* selected counter to min(d0*10000 + d1*1000 + d2*100 + d3*10 + d4, 65535)
\* (digits 6,9,9,9,9 commit 65535), sets its dirty flag even when the value
\* is unchanged, discards the editor and moves to Normal mode.
C8_Commit ==
  (last.mode = "Input" /\ last.input = LastSel) =>
    LET d == last.digits_input.buf
        total == d[1] * 10000 + d[2] * 1000 + d[3] * 100 + d[4] * 10 + d[5]
    IN  /\ counters[LastSel].val = IF total < 65535 THEN total ELSE 65535
        /\ d = <<6, 9, 9, 9, 9>> => counters[LastSel].val = 65535
        /\ counters[LastSel].dirty
        /\ ~digits_input.some
        /\ mode = "Normal"

\* the digits 6,9,9,9,9 were committed
C8_Witness ==
  /\ last.mode = "Input" /\ last.input = LastSel
  /\ last.digits_input.buf = <<6, 9, 9, 9, 9>>
  /\ counters[LastSel].val = 65535

\* C9: in Input mode a selector symbol naming a counter other than the
\* edited one moves to Normal mode and discards the editor, leaving the
\* selection, the four values and the four dirty flags as they were.
C9_Discard ==
  (last.mode = "Input" /\ last.input \in Selections /\ last.input # LastSel) =>
    /\ mode = "Normal"
    /\ ~digits_input.some
    /\ selected_counter = LastSel
    /\ counters = last.counters

\* an editor whose digits differ from the counter's value was discarded
C9_Witness ==
  /\ last.mode = "Input" /\ last.input \in Selections /\ last.input # LastSel
  /\ last.digits_input.some
  /\ last.digits_input.buf # DecimalDigits(last.counters[LastSel].val)
  /\ mode = "Normal"

\* C10: ConfirmReset is entered from Normal by digit 0 and left only by * or
\* #: # sets the selected counter to 0 with dirty = TRUE and moves to
\* Normal, * moves to Normal changing no counter, every other symbol leaves
\* the whole state, the mode included, unchanged.
C10_ConfirmReset ==
  /\ Handled("Normal", "Num0") => mode = "ConfirmReset"
  /\ (mode = "ConfirmReset" /\ last.mode # "ConfirmReset") => Handled("Normal", "Num0")
  /\ Handled("ConfirmReset", "Hash") =>
       /\ counters[LastSel] = [val |-> 0, dirty |-> TRUE]
       /\ mode = "Normal"
  /\ Handled("ConfirmReset", "Star") =>
       /\ counters = last.counters
       /\ mode = "Normal"
  /\ (last.mode = "ConfirmReset" /\ last.input \notin {"Star", "Hash"}) =>
       /\ mode = "ConfirmReset"
       /\ counters = last.counters
       /\ selected_counter = LastSel
       /\ digits_input = last.digits_input
       /\ eeprom = last.eeprom

\* a clean non-zero counter was reset after a confirmation that first
\* ignored another symbol
C10_Witness ==
  /\ Handled("ConfirmReset", "Hash")
  /\ last.before \notin {"Num0", "Star", "Hash"}
  /\ last.counters[LastSel].val # 0 /\ ~last.counters[LastSel].dirty
  /\ counters[LastSel] = [val |-> 0, dirty |-> TRUE]
  /\ mode = "Normal"

\* C12: in Input mode a digit d entered with the cursor at position 0 and d
\* in {7, 8, 9} is rejected and leaves the editor and the rest of the state
\* unchanged; in every other case the digit at the cursor becomes d, the
\* other digits are unchanged and the cursor becomes (cursor + 1) mod 5.
C12_DigitEntry ==
  (last.mode = "Input" /\ last.input \in Digit) =>
    LET d == ToDigit(last.input)
        c == last.digits_input.index
    IN  IF c = 0 /\ d \in {7, 8, 9}
        THEN /\ digits_input = last.digits_input
             /\ mode = last.mode
             /\ counters = last.counters
             /\ selected_counter = LastSel
             /\ eeprom = last.eeprom
        ELSE /\ digits_input.some
             /\ digits_input.buf[c + 1] = d
             /\ \A j \in 1..5 : j # c + 1 => digits_input.buf[j] = last.digits_input.buf[j]
             /\ digits_input.index = (c + 1) % 5

\* a 9 was rejected at position 0 after a 6 had been accepted there and the
\* cursor had been moved back
C12_Witness ==
  /\ Handled("Input", "Num9")
  /\ last.digits_input.index = 0
  /\ last.digits_input.buf[1] = 6
  /\ last.before = "Star"
  /\ digits_input = last.digits_input

\* C13: whenever an editor exists its cursor is in [0, 5); in Input mode *
\* moves the cursor from c to c-1 and from 0 to 4, # moves it from c to c+1
\* and from 4 to 0, and neither changes a digit.
C13_Cursor ==
  /\ digits_input.some => digits_input.index \in 0..4
  /\ Handled("Input", "Star") =>
       /\ digits_input.index = IF last.digits_input.index = 0 THEN 4
                               ELSE last.digits_input.index - 1
       /\ digits_input.buf = last.digits_input.buf
  /\ Handled("Input", "Hash") =>
       /\ digits_input.index = IF last.digits_input.index = 4 THEN 0
                               ELSE last.digits_input.index + 1
       /\ digits_input.buf = last.digits_input.buf

\* the cursor wrapped from 0 to 4 and then from 4 back to 0
C13_Witness ==
  /\ Handled("Input", "Hash")
  /\ last.before = "Star"
  /\ last.digits_input.index = 4
  /\ digits_input.index = 0

\* C19: the editor is present iff the mode is Input; so Input mode is never
\* stuck: from every reachable Input state each selector symbol leads to
\* Normal mode.
C19_EditorIffInput ==
  /\ digits_input.some <=> mode = "Input"
  /\ mode = "Input" =>
       \A s \in Selections : handle_input(Self, eeprom, s).self.mode = "Normal"
  /\ (last.mode = "Input" /\ last.input \in Selections) => mode = "Normal"

\* Input mode was entered, a digit was typed and a selector left the mode
C19_Witness ==
  /\ last.mode = "Input" /\ last.input \in Selections
  /\ last.before \in Digit
  /\ last.digits_input.some
  /\ mode = "Normal" /\ ~digits_input.some

\* C11: for every v in [0, 65535] the editor built from v holds the
\* zero-padded decimal digits of v, most significant first, equal to
\* Counter::to_digits of a counter holding v, with cursor 0, and recomposing
\* it without an edit returns exactly v.
C11_DigitsRoundTrip ==
  /\ digits_input.some =>
       /\ digits_input.buf = DecimalDigits(seed)
       /\ digits_input.buf = CounterToDigits(CounterNew(seed))
       /\ digits_input.index = 0
  /\ parsed # NoValue => parsed = seed

\* the largest value went through the editor and came back
C11_Witness ==
  /\ seed = 65535
  /\ digits_input.some /\ digits_input.buf = <<6, 5, 5, 3, 5>>
  /\ parsed = 65535

\* the i-th scan result differs from the one before it (None before the first)
Edge(i) == scans[i] # (IF i = 1 THEN None ELSE scans[i - 1])

\* C14: debounce emits Some(s) exactly on the scans whose result is a symbol
\* s different from the previous scan's result and None otherwise (a held
\* symbol is emitted once, a release emits nothing, the same symbol after a
\* release is emitted again), so one input is handled per press.
C14_Debounce ==
  /\ scans # <<>> =>
       emitted = IF scans[Len(scans)] # None /\ Edge(Len(scans))
                 THEN scans[Len(scans)] ELSE None
  /\ steps = Cardinality({i \in 1..Len(scans) : scans[i] # None /\ Edge(i)})
  /\ (scans # <<>> /\ emitted # None) => last.input = emitted

\* a symbol was held for two scans, released and pressed again
C14_Witness ==
  /\ scans = <<"Hash", "Hash", None, "Hash">>
  /\ emitted = "Hash"
  /\ steps = 2
  /\ counters["A"].val = 7

\* C16 (as claimed): in every ConfirmReset state, whether or not the
\* selected counter is dirty, the display after update_display shows the
\* confirmation prompt on line 1, the complete *=no / #=yes legend at the
\* start of line 2 and the selected counter's letter at the bottom right.
C16_ConfirmResetDisplay ==
  mode = "ConfirmReset" =>
    /\ \A i \in 1..14 : lcd[i - 1] = ClearCounterStr[i]
    /\ \A i \in 1..13 : lcd[64 + i - 1] = NoYesStr[i]
    /\ lcd[79] = selected_counter

ScenarioEdit == <<"Hash", "Hash", "Hash", "A", "Star", "Num9">>

\* C15 (as claimed): from Normal mode, selection A, counter A = 0, after #,
\* #, #, selector-A, *, digit 9 the mode is Input, the editor's digits are
\* 0,0,0,0,9 and its cursor is at position 4; a following selector-A
\* commits: counter A = 9, dirty, mode Normal.
C15_ScenarioCursor4 ==
  /\ trace = ScenarioEdit =>
       /\ mode = "Input"
       /\ digits_input.buf = <<0, 0, 0, 0, 9>>
       /\ digits_input.index = 4
  /\ trace = ScenarioEdit \o <<"A">> =>
       /\ counters["A"] = [val |-> 9, dirty |-> TRUE]
       /\ mode = "Normal"

\* C15 (amended): as claimed, except that after the digit 9 the cursor is at
\* position 0: * moved it from 0 to 4, and the entry at position 4 advanced
\* it modulo 5.
C15_ScenarioCursor0 ==
  /\ trace = <<"Hash", "Hash", "Hash">> => counters["A"] = [val |-> 3, dirty |-> TRUE]
  /\ trace = <<"Hash", "Hash", "Hash", "A">> =>
       /\ mode = "Input"
       /\ digits_input.buf = <<0, 0, 0, 0, 3>> /\ digits_input.index = 0
  /\ trace = <<"Hash", "Hash", "Hash", "A", "Star">> => digits_input.index = 4
  /\ trace = ScenarioEdit =>
       /\ mode = "Input"
       /\ digits_input.some
       /\ digits_input.buf = <<0, 0, 0, 0, 9>>
       /\ digits_input.index = 0
  /\ trace = ScenarioEdit \o <<"A">> =>
       /\ counters["A"] = [val |-> 9, dirty |-> TRUE]
       /\ mode = "Normal"
       /\ ~digits_input.some

\* the whole scenario was played
C15_Witness ==
  /\ trace = ScenarioEdit \o <<"A">>
  /\ last.digits_input.buf = <<0, 0, 0, 0, 9>>
  /\ last.digits_input.index = 0
  /\ counters["A"] = [val |-> 9, dirty |-> TRUE]
  /\ mode = "Normal"

\* the sum of digit * 10^i over the five digits, without any width
DigitSum(d) == d[1] * 10000 + d[2] * 1000 + d[3] * 100 + d[4] * 10 + d[5]

\* C20: in every state with an editor every digit is in [0, 9] and the most
\* significant digit is at most 6, whatever the seed and the cursor moves
\* and entries; so in Digits::to_u16 each product digit * 10^i is at most
\* 60000 and does not overflow 16 bits, and only the saturating addition
\* clamps.
C20_DigitBounds ==
  digits_input.some =>
    /\ \A j \in 1..5 : digits_input.buf[j] \in 0..9
    /\ digits_input.buf[1] <= 6
    /\ \A i \in 0..4 :
         /\ digits_input.buf[5 - i] * (10 ^ i) <= 60000
         /\ WrappingMul(digits_input.buf[5 - i], Pow10(i)) = digits_input.buf[5 - i] * (10 ^ i)
    /\ Parse(digits_input) = IF DigitSum(digits_input.buf) > 65535 THEN 65535
                             ELSE DigitSum(digits_input.buf)

\* a 9 was refused in the first place, where a 6 stands, and the digits
\* exceed 65535
C20_Witness ==
  /\ digits_input.some
  /\ Handled("Input", "Num9")
  /\ last.digits_input.index = 0
  /\ digits_input.buf[1] = 6
  /\ DigitSum(digits_input.buf) > 65535
  /\ Parse(digits_input) = 65535

\* the byte calls that have returned
Returned == {i \in 1..drv.op : i < drv.op \/ drv.pc = "idle"}
\* the write_byte calls that started a write cycle
Cycles == {i \in 1..drv.op : Job[i].op = "write" /\ drv.triggers[i] > 0}

\* C17: write_byte first reads the byte at addr; if it equals the value the
\* call returns without arming or triggering a write and the medium is
\* untouched; otherwise exactly one write cycle is started and, once it has
\* completed, read_byte(addr) returns the value and every other address is
\* unchanged.
C17_WriteSkip ==
  /\ \A i \in Returned : Job[i].op = "write" =>
       IF drv.olds[i] = Job[i].data
       THEN drv.arms[i] = 0 /\ drv.triggers[i] = 0
       ELSE drv.arms[i] = 1 /\ drv.triggers[i] = 1
  /\ drv.programmed + (IF regs.eepe THEN 1 ELSE 0) = Cardinality(Cycles)
  /\ \A a \in Addrs :
       eeprom[a] = IF \E i \in Cycles : Job[i].addr = a /\ ~(regs.eepe /\ regs.eear = a)
                   THEN Job[CHOOSE i \in Cycles : Job[i].addr = a].data
                   ELSE last.eeprom[a]
  /\ \A k \in 1..Len(drv.buf) : drv.buf[k] = Job[k].data

\* a store that skipped a byte and wrote another one, read back in full
C17_Witness ==
  /\ drv.op = Len(Job) /\ drv.pc = "idle" /\ ~regs.eepe
  /\ Len(drv.buf) = 8
  /\ drv.olds[1] = Job[1].data /\ drv.arms[1] = 0
  /\ drv.olds[2] # Job[2].data /\ drv.triggers[2] = 1
  /\ eeprom[io_addr + 1] = Job[2].data
  /\ drv.programmed > 1

\* C18: the address, data and control registers are accessed only after the
\* write-in-progress flag has been seen clear, so nothing is read or
\* written while a write is in progress, also across the consecutive byte
\* calls of write_bytes / read_bytes; and in a write the write enable
\* precedes the write start.
C18_Protocol ==
  /\ ~drv.busy_access
  /\ ~drv.unarmed_trigger
  /\ drv.pc \in {"r_eear", "r_eere", "r_eedr", "w_eear", "w_eedr", "w_arm", "w_trigger"}
       => ~regs.eepe
  /\ drv.pc = "w_trigger" => regs.eempe

\* the second of two consecutive writes is about to start the write, after
\* the first one has been completed by the hardware
C18_Witness ==
  /\ drv.pc = "w_trigger"
  /\ drv.op > 1
  /\ Job[drv.op - 1].op = "write" /\ drv.triggers[drv.op - 1] = 1
  /\ drv.programmed > 0
  /\ regs.eempe /\ ~regs.eepe

\* the symbols that modify the selected counter: decrement and increment in
\* Normal mode, the commit in Input mode, the confirmed reset
ModifiesSelected ==
  \/ Handled("Normal", "Star") \/ Handled("Normal", "Hash")
  \/ (last.mode = "Input" /\ last.digits_input.some /\ last.input = LastSel)
  \/ Handled("ConfirmReset", "Hash")

\* C21: for every mode and every input symbol, handle_input leaves the value
\* and the dirty flag of each of the three counters that were not selected
\* when the symbol arrived unchanged; the selected counter is modified only
\* by increment, decrement, commit or reset.
C21_UnselectedFrame ==
  last.input \in Inputs =>
    /\ \A k \in Selections \ {LastSel} :
         /\ counters[k].val = last.counters[k].val
         /\ counters[k].dirty = last.counters[k].dirty
    /\ ~ModifiesSelected => counters[LastSel] = last.counters[LastSel]

\* a commit to counter B changed B while counter A, incremented before B
\* was selected, kept its value and its dirty flag
C21_Witness ==
  /\ last.mode = "Input" /\ last.input = "B" /\ LastSel = "B"
  /\ ~last.counters["B"].dirty /\ counters["B"].dirty
  /\ last.counters["A"].dirty
  /\ counters["A"] = last.counters["A"]
  /\ counters["A"].val # counters["B"].val

TypeOK ==
  /\ mode \in Modes
  /\ selected_counter \in Selections
  /\ \A k \in Selections : counters[k].val \in 0..(U16 - 1) /\ counters[k].dirty \in BOOLEAN
  /\ \A a \in Addrs : eeprom[a] \in 0..(U8 - 1)
  /\ digits_input.index \in 0..(BUF_LEN - 1)
====
